---- MODULE Spec2Model ----
(***************************************************************************)
(* A model of three reactive pipelines of dspace-angular:                  *)
(*   - MyDSpaceReloadableActionsComponent (action -> reload -> notify),    *)
(*   - TasksService (POST/DELETE task requests through the request         *)
(*     service),                                                           *)
(*   - VocabularyService (vocabulary entries lookups).                     *)
(* Every observable is modelled by the events it delivers: one action per  *)
(* value, completion or unsubscription, and the whole synchronous operator *)
(* chain that a value runs through is part of the action that delivers it. *)
(***************************************************************************)
EXTENDS Integers, Sequences, FiniteSets, TLC

VARIABLES
  \* ---- reloadable actions component
  processing,        \* value of processing$
  run,               \* per invocation of startActionExecution: the subscription's state
  notifications,     \* per run: the notifications shown, in order
  processCompleted,  \* per run: the processCompleted events emitted, in order
  reloadCalls,       \* per run: number of calls of the generic reload()
  emitted,           \* per run: values delivered to the subscriber
  reloadYields,      \* per run: values emitted by reloadObjectExecution()
  \* ---- tasks service
  nextRequestId,     \* requestService.generateRequestId(): the next identifier
  task,              \* the pipeline built by the latest invocation
  invocations,       \* number of invocations so far
  sub,               \* per subscription of that pipeline: the operators' state
  resolved,          \* per subscription: values halService.getEndpoint() emitted
  delivered,         \* per subscription: values delivered to the subscriber
  configured,        \* requests handed to requestService.configure(), in order
  gatewayRD,         \* per request identifier: the RemoteData the gateway exposes
  responses,         \* number of responses the gateway has produced
  resolverEmits,     \* number of values halService.getEndpoint() has emitted
  \* ---- vocabulary service
  lookup,            \* the pipeline built by the latest invocation
  lookups,           \* number of invocations so far
  vocab,             \* the operators' state of that pipeline
  vocabularyRDs,     \* RemoteData values findVocabularyById() has emitted
  entriesRequests,   \* requests handed to configureRequest(), in order
  entriesStates,     \* states of the entries request the gateway has exposed
  answered,          \* values delivered to the subscriber
  endpoints,         \* hrefs the entry-detail browse endpoint has emitted
  fetched            \* calls of findByHref() / findAllByHref() on the entry details

orchVars == <<processing, run, notifications, processCompleted, reloadCalls,
              emitted, reloadYields>>

taskVars == <<nextRequestId, task, invocations, sub, resolved, delivered, configured,
              gatewayRD, responses, resolverEmits>>

vocabVars == <<lookup, lookups, vocab, vocabularyRDs, entriesRequests, entriesStates,
               answered, endpoints, fetched>>

vars == <<orchVars, taskVars, vocabVars>>

------------------------------------------------------------------------------
(* Bounds of the model *)

\* outcomes emitted by actionExecution(), over all runs
MaxOutcomes == 2
\* values emitted by reloadObjectExecution(), over all runs
MaxReloadEmits == 2
\* invocations of postToEndpoint, deleteById and getEndpointById
MaxInvocations == 1
\* values emitted by halService.getEndpoint(), over all subscriptions
MaxResolverEmits == 2
\* responses produced by the gateway
MaxResponses == 2
\* invocations of the vocabulary lookups
MaxLookups == 2
\* values emitted by findVocabularyById(), or by the browse endpoint
MaxVocabularyEmits == 2
\* states of the entries request exposed by the gateway
MaxEntriesStates == 2

------------------------------------------------------------------------------
(* Reloadable actions component *)

Runs == {"r1", "r2"}

ObjIds == {"item1"}

Null == [kind |-> "null"]
DSO == [kind : {"dso"}, id : ObjIds]

RDStates == {"RequestPending", "ResponsePending", "Success", "Failure"}

\* RemoteData<DSpaceObject>: the payload is present in Success only, and a
\* successful response may carry no object
RemoteDataDSO ==
  [kind : {"rd"}, state : {"Success"}, payload : DSO \cup {Null}]
  \cup [kind : {"rd"}, state : {"ResponsePending", "Failure"}, payload : {Null}]

\* what reloadObjectExecution() can emit: Observable<RemoteData<DSpaceObject> | DSpaceObject>
ReloadValues == DSO \cup {Null} \cup RemoteDataDSO

Thrown == [kind |-> "TypeError"]

\* res instanceof RemoteData
isRemoteData(res) == res.kind = "rd"

\* of(rd).pipe(getFirstSucceededRemoteDataPayload()): the values it emits
getFirstSucceededRemoteDataPayload(rd) ==
  IF rd.state = "Success" THEN <<rd.payload>> ELSE <<>>

\* Object.assign(new constructor(), dso, {indexableObject: dso}); reading
\* dso.constructor of null or undefined throws a TypeError
convertReloadedObject(dso) ==
  IF dso.kind = "null"
    THEN Thrown
    ELSE [kind |-> "searchResult", id |-> dso.id, indexableObject |-> dso]

\* _reloadObject(): what one value of reloadObjectExecution() becomes
reloadObject(res) ==
  LET unwrapped == IF isRemoteData(res)
                     THEN getFirstSucceededRemoteDataPayload(res)
                     ELSE <<res>>
  IN  [i \in 1..Len(unwrapped) |-> convertReloadedObject(unwrapped[i])]

\* if (reloadedObject): truthiness of the value handed to the handler
truthy(o) == o.kind # "null"

\* abandoned counts the reload subscriptions switchMap has dropped, dropped the values
\* their sources went on to yield, lastDropped the latest of these values
IdleRun == [st |-> "idle", outerDone |-> FALSE, inner |-> "none",
            res |-> FALSE, outcomes |-> <<>>, lastReload |-> Null,
            abandoned |-> 0, dropped |-> 0, lastDropped |-> Null]

InitOrch ==
  /\ processing = FALSE
  /\ run = [r \in Runs |-> IdleRun]
  /\ notifications = [r \in Runs |-> <<>>]
  /\ processCompleted = [r \in Runs |-> <<>>]
  /\ reloadCalls = [r \in Runs |-> 0]
  /\ emitted = [r \in Runs |-> <<>>]
  /\ reloadYields = [r \in Runs |-> <<>>]

TotalOutcomes == Len(run["r1"].outcomes) + Len(run["r2"].outcomes)
TotalReloadEmits == Len(reloadYields["r1"]) + Len(reloadYields["r2"])
                      + run["r1"].dropped + run["r2"].dropped

\* handleReloadableActionResponse without the test of result
handleReloadableActionResponseAsSuccess(r, result, reloadedObject) ==
  /\ IF truthy(reloadedObject)
       THEN /\ processCompleted' = [processCompleted EXCEPT ![r] =
                  Append(@, [result |-> result, reloadedObject |-> reloadedObject])]
            /\ UNCHANGED reloadCalls
       ELSE /\ reloadCalls' = [reloadCalls EXCEPT ![r] = @ + 1]
            /\ UNCHANGED processCompleted
  /\ notifications' = [notifications EXCEPT ![r] = Append(@, "success")]

\* handleReloadableActionResponse(result, reloadedObject), run r being the caller
handleReloadableActionResponse(r, result, reloadedObject) ==
  IF result
    THEN /\ IF truthy(reloadedObject)
              THEN /\ processCompleted' = [processCompleted EXCEPT ![r] =
                         Append(@, [result |-> result, reloadedObject |-> reloadedObject])]
                   /\ UNCHANGED reloadCalls
              ELSE /\ reloadCalls' = [reloadCalls EXCEPT ![r] = @ + 1]
                   /\ UNCHANGED processCompleted
         /\ notifications' = [notifications EXCEPT ![r] = Append(@, "success")]
    ELSE /\ notifications' = [notifications EXCEPT ![r] = Append(@, "error")]
         /\ UNCHANGED <<processCompleted, reloadCalls>>

\* startActionExecution(): processing$.next(true) and the pipe is built
startActionExecution(r) ==
  /\ UNCHANGED <<taskVars, vocabVars>>
  /\ run[r].st = "idle"
  /\ processing' = TRUE
  /\ run' = [run EXCEPT ![r].st = "invoked"]
  /\ UNCHANGED <<notifications, processCompleted, reloadCalls, emitted, reloadYields>>

\* the caller subscribes to the returned observable
Subscribe(r) ==
  /\ UNCHANGED <<taskVars, vocabVars>>
  /\ run[r].st = "invoked"
  /\ run' = [run EXCEPT ![r].st = "subscribed"]
  /\ UNCHANGED <<processing, notifications, processCompleted, reloadCalls, emitted,
                 reloadYields>>

\* actionExecution() emits an outcome: the switchMap projection runs, dropping
\* the inner subscription of the previous outcome
ActionEmits(r, hasSucceeded) ==
  /\ UNCHANGED <<taskVars, vocabVars>>
  /\ run[r].st = "subscribed"
  /\ ~run[r].outerDone
  /\ TotalOutcomes < MaxOutcomes
  /\ IF hasSucceeded
       THEN /\ run' = [run EXCEPT ![r].inner = "active", ![r].res = TRUE,
                                  ![r].outcomes = Append(@, TRUE),
                                  ![r].lastReload = Null,
                                  ![r].abandoned =
                                    IF run[r].inner = "active" THEN @ + 1 ELSE @]
            /\ UNCHANGED <<processing, notifications, processCompleted, reloadCalls,
                           emitted>>
       ELSE /\ processing' = FALSE
            /\ handleReloadableActionResponse(r, FALSE, Null)
            /\ emitted' = [emitted EXCEPT ![r] = Append(@, Null)]
            /\ run' = [run EXCEPT ![r].inner = "done", ![r].res = FALSE,
                                  ![r].outcomes = Append(@, FALSE),
                                  ![r].lastReload = Null,
                                  ![r].abandoned =
                                    IF run[r].inner = "active" THEN @ + 1 ELSE @]
  /\ UNCHANGED reloadYields

\* actionExecution() completes
ActionCompletes(r) ==
  /\ UNCHANGED <<taskVars, vocabVars>>
  /\ run[r].st = "subscribed"
  /\ ~run[r].outerDone
  /\ run' = [run EXCEPT ![r].outerDone = TRUE,
                        ![r].st = IF run[r].inner = "active" THEN @ ELSE "completed"]
  /\ UNCHANGED <<processing, notifications, processCompleted, reloadCalls, emitted,
                 reloadYields>>

\* ReloadEmits with the tap running outside the returned chain: the reload result is
\* handled for a run the caller has unsubscribed from as well
ReloadEmitsDetached(r, v) ==
  /\ UNCHANGED <<taskVars, vocabVars>>
  /\ run[r].st \in {"subscribed", "unsubscribed"}
  /\ run[r].inner = "active"
  /\ TotalReloadEmits < MaxReloadEmits
  /\ reloadYields' = [reloadYields EXCEPT ![r] = Append(@, v)]
  /\ LET out == reloadObject(v) IN
       IF out = <<>>
         THEN /\ run' = [run EXCEPT ![r].lastReload = v]
              /\ UNCHANGED <<processing, notifications, processCompleted,
                             reloadCalls, emitted>>
         ELSE IF out[1] = Thrown
           THEN /\ run' = [run EXCEPT ![r].lastReload = v, ![r].st = "errored",
                                      ![r].inner = "done"]
                /\ UNCHANGED <<processing, notifications, processCompleted,
                               reloadCalls, emitted>>
           ELSE /\ processing' = FALSE
                /\ handleReloadableActionResponse(r, run[r].res, out[1])
                /\ emitted' = [emitted EXCEPT ![r] = Append(@, out[1])]
                /\ run' = [run EXCEPT ![r].lastReload = v]

\* reloadObjectExecution() emits a value into _reloadObject() and the tap
ReloadEmits(r, v) ==
  /\ UNCHANGED <<taskVars, vocabVars>>
  /\ run[r].st = "subscribed"
  /\ run[r].inner = "active"
  /\ TotalReloadEmits < MaxReloadEmits
  /\ reloadYields' = [reloadYields EXCEPT ![r] = Append(@, v)]
  /\ LET out == reloadObject(v) IN
       IF out = <<>>
         THEN /\ run' = [run EXCEPT ![r].lastReload = v]
              /\ UNCHANGED <<processing, notifications, processCompleted,
                             reloadCalls, emitted>>
         ELSE IF out[1] = Thrown
           THEN /\ run' = [run EXCEPT ![r].lastReload = v, ![r].st = "errored",
                                      ![r].inner = "done"]
                /\ UNCHANGED <<processing, notifications, processCompleted,
                               reloadCalls, emitted>>
           ELSE /\ processing' = FALSE
                /\ handleReloadableActionResponse(r, run[r].res, out[1])
                /\ emitted' = [emitted EXCEPT ![r] = Append(@, out[1])]
                /\ run' = [run EXCEPT ![r].lastReload = v]

\* AbandonedReloadEmits with mergeMap in place of switchMap: the inner subscription of
\* the earlier outcome is kept, and its tap handles the result with that outcome's res
AbandonedReloadEmitsMerged(r, v) ==
  /\ UNCHANGED <<taskVars, vocabVars>>
  /\ run[r].abandoned > 0
  /\ TotalReloadEmits < MaxReloadEmits
  /\ UNCHANGED reloadYields
  /\ LET out == reloadObject(v) IN
       IF run[r].st # "subscribed" \/ out = <<>> \/ out = <<Thrown>>
         THEN /\ run' = [run EXCEPT ![r].dropped = @ + 1, ![r].lastDropped = v]
              /\ UNCHANGED <<processing, notifications, processCompleted,
                             reloadCalls, emitted>>
         ELSE /\ processing' = FALSE
              /\ handleReloadableActionResponse(r, TRUE, out[1])
              /\ emitted' = [emitted EXCEPT ![r] = Append(@, out[1])]
              /\ run' = [run EXCEPT ![r].dropped = @ + 1, ![r].lastDropped = v]

\* the reloadObjectExecution() of an earlier outcome yields a value after switchMap
\* has unsubscribed from it: the value reaches neither _reloadObject()'s operators
\* nor the tap
AbandonedReloadEmits(r, v) ==
  /\ UNCHANGED <<taskVars, vocabVars>>
  /\ run[r].abandoned > 0
  /\ TotalReloadEmits < MaxReloadEmits
  /\ run' = [run EXCEPT ![r].dropped = @ + 1, ![r].lastDropped = v]
  /\ UNCHANGED <<processing, notifications, processCompleted, reloadCalls, emitted,
                 reloadYields>>

\* reloadObjectExecution() completes
ReloadCompletes(r) ==
  /\ UNCHANGED <<taskVars, vocabVars>>
  /\ run[r].st = "subscribed"
  /\ run[r].inner = "active"
  /\ run' = [run EXCEPT ![r].inner = "done",
                        ![r].st = IF run[r].outerDone THEN "completed" ELSE @]
  /\ UNCHANGED <<processing, notifications, processCompleted, reloadCalls, emitted,
                 reloadYields>>

\* the caller unsubscribes: nothing is delivered to this run any more
Unsubscribe(r) ==
  /\ UNCHANGED <<taskVars, vocabVars>>
  /\ run[r].st = "subscribed"
  /\ run' = [run EXCEPT ![r].st = "unsubscribed"]
  /\ UNCHANGED <<processing, notifications, processCompleted, reloadCalls, emitted,
                 reloadYields>>

NextOrch ==
  \/ \E r \in Runs : startActionExecution(r)
  \/ \E r \in Runs : Subscribe(r)
  \/ \E r \in Runs, b \in BOOLEAN : ActionEmits(r, b)
  \/ \E r \in Runs : ActionCompletes(r)
  \/ \E r \in Runs, v \in ReloadValues : ReloadEmits(r, v)
  \/ \E r \in Runs, v \in ReloadValues : AbandonedReloadEmits(r, v)
  \/ \E r \in Runs : ReloadCompletes(r)
  \/ \E r \in Runs : Unsubscribe(r)


------------------------------------------------------------------------------
(* Tasks service *)

Subs == {"s1", "s2"}

\* an absent (undefined) argument or field
Undefined == "undefined"
\* an absent or empty scopeId / linkPath: both are falsy and both are empty
NoScope == ""
NoLinkPath == ""

\* this.linkPath of the concrete service
ServiceLinkPath == "claimedtasks"

\* the argument lists the invocations are drawn from
PostArgs ==
  { [linkPath |-> "claimtask", body |-> "{}", scopeId |-> "123", options |-> Undefined],
    [linkPath |-> "claimtask", body |-> "submit_approve=true", scopeId |-> NoScope,
     options |-> "form-urlencoded"] }
DeleteArgs ==
  { [linkPath |-> "claimtask", scopeId |-> "123", options |-> Undefined],
    [linkPath |-> NoLinkPath, scopeId |-> "123", options |-> "form-urlencoded"] }
EndpointArgs ==
  { [scopeId |-> "123", linkPath |-> NoLinkPath],
    [scopeId |-> NoScope, linkPath |-> "claimtask"] }

\* what halService.getEndpoint(path) can emit
ResolverValues(path) == {"", "https://rest/api/" \o path, "https://mirror/api/" \o path}

\* the RemoteData of a request, as the gateway exposes it
NoRD == [state |-> "None", statusCode |-> 0, errorMessage |-> Undefined]
PendingRD(state) == [state |-> state, statusCode |-> 0, errorMessage |-> Undefined]
CompletedRDs ==
  [state : {"Success"}, statusCode : {200, 204}, errorMessage : {Undefined}]
  \cup { [state |-> "Failure", statusCode |-> 404, errorMessage |-> "Not Found"] }

hasFailed(response) == response.state = "Failure"
hasCompleted(response) == response.state \in {"Success", "Failure"}

\* isNotEmpty(obj) of empty.util, on strings
isNotEmpty(str) == str # ""

\* new ProcessTaskResponse(hasSucceeded, statusCode?, errorMessage?)
ProcessTaskResponse(hasSucceeded, statusCode, errorMessage) ==
  [hasSucceeded |-> hasSucceeded, statusCode |-> statusCode, errorMessage |-> errorMessage]

\* fetchRequest with the error message of a failed response left out
fetchRequestWithoutMessage(response) ==
  ProcessTaskResponse(~hasFailed(response), response.statusCode, Undefined)

\* fetchRequest(requestId): the map applied to the first completed RemoteData
fetchRequest(response) ==
  IF hasFailed(response)
    THEN ProcessTaskResponse(FALSE, response.statusCode, response.errorMessage)
    ELSE ProcessTaskResponse(TRUE, response.statusCode, Undefined)

\* getEndpointByIDHref without the isNotEmpty test of the identifier
getEndpointByIDHrefAlways(endpoint, resourceID) == endpoint \o "/" \o resourceID

\* getEndpointByIDHref(endpoint, resourceID)
getEndpointByIDHref(endpoint, resourceID) ==
  IF isNotEmpty(resourceID) THEN endpoint \o "/" \o resourceID ELSE endpoint

TaskPostRequest(requestId, href, body, options) ==
  [method |-> "POST", uuid |-> requestId, href |-> href, body |-> body, options |-> options]

TaskDeleteRequest(requestId, href, body, options) ==
  [method |-> "DELETE", uuid |-> requestId, href |-> href, body |-> body, options |-> options]

NoTask == [op |-> "none", linkPath |-> NoLinkPath, body |-> Undefined, scopeId |-> NoScope,
           options |-> Undefined, requestId |-> 0]

\* last: the previous value seen by the pipeline's first distinctUntilChanged(),
\* pending: the inner fetchRequest subscriptions of flatMap still waiting
OffSub == [st |-> "off", last |-> Undefined, pending |-> 0]

InitTask ==
  /\ nextRequestId = 1
  /\ task = NoTask
  /\ invocations = 0
  /\ sub = [s \in Subs |-> OffSub]
  /\ resolved = [s \in Subs |-> <<>>]
  /\ delivered = [s \in Subs |-> <<>>]
  /\ configured = <<>>
  /\ gatewayRD = [i \in 1..MaxInvocations |-> NoRD]
  /\ responses = 0
  /\ resolverEmits = 0

\* a new invocation builds a new pipeline; the model follows the latest one
NewPipeline(t) ==
  /\ invocations < MaxInvocations
  /\ invocations' = invocations + 1
  /\ task' = t
  /\ sub' = [s \in Subs |-> OffSub]
  /\ resolved' = [s \in Subs |-> <<>>]
  /\ delivered' = [s \in Subs |-> <<>>]
  /\ UNCHANGED <<configured, gatewayRD, responses, resolverEmits>>
  /\ UNCHANGED <<orchVars, vocabVars>>

\* postToEndpoint(linkPath, body, scopeId, options): the identifier is generated
\* when the method is called, before the pipe is built
postToEndpoint(linkPath, body, scopeId, options) ==
  /\ NewPipeline([op |-> "post", linkPath |-> linkPath, body |-> body,
                  scopeId |-> scopeId, options |-> options, requestId |-> nextRequestId])
  /\ nextRequestId' = nextRequestId + 1

\* deleteById(linkPath, scopeId, options)
deleteById(linkPath, scopeId, options) ==
  /\ NewPipeline([op |-> "delete", linkPath |-> linkPath, body |-> Undefined,
                  scopeId |-> scopeId, options |-> options, requestId |-> nextRequestId])
  /\ nextRequestId' = nextRequestId + 1

\* getEndpointById(scopeId, linkPath), called on its own
getEndpointById(scopeId, linkPath) ==
  /\ NewPipeline([op |-> "endpoint", linkPath |-> linkPath, body |-> Undefined,
                  scopeId |-> scopeId, options |-> Undefined, requestId |-> 0])
  /\ UNCHANGED nextRequestId

\* searchTask(searchMethod, options)
searchTask(searchMethod) ==
  /\ NewPipeline([op |-> "search", linkPath |-> searchMethod, body |-> Undefined,
                  scopeId |-> NoScope, options |-> Undefined, requestId |-> 0])
  /\ UNCHANGED nextRequestId

\* the search methods the invocations are drawn from
SearchMethods == {"findByItem"}

\* resolvedLinkPath without the fallback to this.linkPath
resolvedLinkPathGiven(t) == t.linkPath

\* the link path handed to halService.getEndpoint()
resolvedLinkPath(t) ==
  IF t.op = "post" THEN t.linkPath
  ELSE IF t.linkPath # NoLinkPath THEN t.linkPath ELSE ServiceLinkPath

\* a caller subscribes to the returned observable; the subscriptions being
\* interchangeable, "s1" stands for the first one
SubscribeTask(s) ==
  /\ task.op # "none"
  /\ sub[s].st = "off"
  /\ s = "s2" => sub["s1"].st = "on"
  /\ sub' = [sub EXCEPT ![s].st = "on"]
  /\ UNCHANGED <<nextRequestId, task, invocations, resolved, delivered, configured,
                 gatewayRD, responses, resolverEmits>>
  /\ UNCHANGED <<orchVars, vocabVars>>

\* pipelineHead without distinctUntilChanged()
pipelineHeadRepeating(t, last, href) ==
  LET url == getEndpointByIDHref(href, t.scopeId)
      key == IF t.op = "post" THEN url ELSE href
  IN  [passes |-> isNotEmpty(href),
       last   |-> IF isNotEmpty(href) THEN key ELSE last,
       url    |-> url]

\* pipelineHead without filter(isNotEmpty)
pipelineHeadUnfiltered(t, last, href) ==
  LET url == getEndpointByIDHref(href, t.scopeId)
      key == IF t.op = "post" THEN url ELSE href
  IN  [passes |-> key # last, last |-> key, url |-> url]

\* The head of the three pipelines, applied to one value of the resolver:
\*   postToEndpoint:  filter(isNotEmpty), map(getEndpointByIDHref), distinctUntilChanged()
\*   getEndpointById: filter(isNotEmpty), distinctUntilChanged(), map(getEndpointByIDHref)
\* key is the value distinctUntilChanged() compares, url the value that leaves the head.
pipelineHead(t, last, href) ==
  LET url == getEndpointByIDHref(href, t.scopeId)
      key == IF t.op = "post" THEN url ELSE href
  IN  [passes |-> isNotEmpty(href) /\ key # last,
       last   |-> IF isNotEmpty(href) THEN key ELSE last,
       url    |-> url]

\* the request built from the url that left the head
taskRequest(t, url) ==
  IF t.op = "post"
    THEN TaskPostRequest(t.requestId, url, t.body, t.options)
    ELSE TaskDeleteRequest(t.requestId, url, "null", t.options)

\* ResolverEmits without tap(requestService.configure): the request is built and its
\* response awaited, but it is never handed to the gateway
ResolverEmitsWithoutConfigure(s, href) ==
  /\ task.op \in {"post", "delete", "endpoint"}
  /\ sub[s].st = "on"
  /\ resolverEmits < MaxResolverEmits
  /\ resolverEmits' = resolverEmits + 1
  /\ resolved' = [resolved EXCEPT ![s] = Append(@, href)]
  /\ LET head == pipelineHead(task, sub[s].last, href) IN
       IF ~head.passes
         THEN /\ sub' = [sub EXCEPT ![s].last = head.last]
              /\ UNCHANGED delivered
         ELSE IF task.op = "endpoint"
           THEN /\ sub' = [sub EXCEPT ![s].last = head.last]
                /\ delivered' = [delivered EXCEPT ![s] =
                                   Append(@, [kind |-> "url", url |-> head.url])]
           ELSE /\ sub' = [sub EXCEPT ![s].last = head.last, ![s].pending = @ + 1]
                /\ UNCHANGED delivered
  /\ UNCHANGED <<nextRequestId, task, invocations, responses, configured, gatewayRD>>
  /\ UNCHANGED <<orchVars, vocabVars>>

\* halService.getEndpoint() emits href to subscription s
ResolverEmits(s, href) ==
  /\ task.op \in {"post", "delete", "endpoint"}
  /\ sub[s].st = "on"
  /\ resolverEmits < MaxResolverEmits
  /\ resolverEmits' = resolverEmits + 1
  /\ resolved' = [resolved EXCEPT ![s] = Append(@, href)]
  /\ LET head == pipelineHead(task, sub[s].last, href) IN
       IF ~head.passes
         THEN /\ sub' = [sub EXCEPT ![s].last = head.last]
              /\ UNCHANGED <<delivered, configured, gatewayRD>>
         ELSE IF task.op = "endpoint"
           THEN /\ sub' = [sub EXCEPT ![s].last = head.last]
                /\ delivered' = [delivered EXCEPT ![s] =
                                   Append(@, [kind |-> "url", url |-> head.url])]
                /\ UNCHANGED <<configured, gatewayRD>>
           ELSE \* tap(requestService.configure), then flatMap(fetchRequest(requestId))
                /\ configured' = Append(configured,
                      [request |-> taskRequest(task, head.url), by |-> s, inv |-> invocations])
                /\ gatewayRD' = [gatewayRD EXCEPT ![task.requestId] = PendingRD("RequestPending")]
                /\ sub' = [sub EXCEPT ![s].last = head.last, ![s].pending = @ + 1]
                /\ UNCHANGED delivered
  /\ UNCHANGED <<nextRequestId, task, invocations, responses>>
  /\ UNCHANGED <<orchVars, vocabVars>>

\* the gateway sends the request (the requests of the latest invocation are followed)
GatewayProgress(id) ==
  /\ id = task.requestId
  /\ gatewayRD[id].state = "RequestPending"
  /\ gatewayRD' = [gatewayRD EXCEPT ![id] = PendingRD("ResponsePending")]
  /\ UNCHANGED <<nextRequestId, task, invocations, sub, resolved, delivered, configured,
                 responses, resolverEmits>>
  /\ UNCHANGED <<orchVars, vocabVars>>

\* deliver without the wait for the first completed state: one outcome for every
\* completed state the gateway exposes
deliverEveryState(s, response) ==
  << [kind |-> "outcome", value |-> fetchRequest(response), of |-> response,
      ref |-> Len(delivered[s]) + 1] >>

\* the outcomes one subscription delivers when the RemoteData of its request
\* completes: one new ProcessTaskResponse per waiting fetchRequest; the last
\* distinctUntilChanged() compares object references, which are all different
deliver(s, response) ==
  [k \in 1..sub[s].pending |->
     [kind |-> "outcome", value |-> fetchRequest(response), of |-> response,
      ref |-> Len(delivered[s]) + k]]

\* the gateway receives a response (the first one or a later one) for request id
GatewayResponds(id, response) ==
  /\ id = task.requestId
  /\ gatewayRD[id].state \in {"ResponsePending", "Success", "Failure"}
  /\ responses < MaxResponses
  /\ responses' = responses + 1
  /\ gatewayRD' = [gatewayRD EXCEPT ![id] = response]
  /\ LET waiting(s) == sub[s].st = "on" IN
       /\ delivered' = [s \in Subs |->
            IF waiting(s) THEN delivered[s] \o deliver(s, response) ELSE delivered[s]]
       /\ sub' = [s \in Subs |->
            IF waiting(s) THEN [sub[s] EXCEPT !.pending = 0] ELSE sub[s]]
  /\ UNCHANGED <<nextRequestId, task, invocations, resolved, configured, resolverEmits>>
  /\ UNCHANGED <<orchVars, vocabVars>>

\* the values the search-href stream can emit
SearchHrefs(searchMethod) ==
  {Undefined, "", "https://rest/api/claimedtasks/search/" \o searchMethod}

\* hasValue(href)
hasValue(href) == href # Undefined /\ href # ""

\* this.findByHref(href), called by the switchMap
findByHref(href) == [kind |-> "findByHref", href |-> href]

\* getSearchByHref() emits href to subscription s: find(hasValue) lets the first match
\* through and completes, switchMap(findByHref) fetches it
SearchHrefEmits(s, href) ==
  /\ task.op = "search"
  /\ sub[s].st = "on"
  /\ resolverEmits < MaxResolverEmits
  /\ resolverEmits' = resolverEmits + 1
  /\ resolved' = [resolved EXCEPT ![s] = Append(@, href)]
  /\ IF hasValue(href)
       THEN /\ sub' = [sub EXCEPT ![s].st = "found"]
            /\ delivered' = [delivered EXCEPT ![s] = Append(@, findByHref(href))]
       ELSE UNCHANGED <<sub, delivered>>
  /\ UNCHANGED <<nextRequestId, task, invocations, configured, gatewayRD, responses>>
  /\ UNCHANGED <<orchVars, vocabVars>>

\* getSearchByHref() completes before any value matched: find() emits undefined and
\* completes, switchMap(findByHref) fetches that
SearchHrefCompletes(s) ==
  /\ task.op = "search"
  /\ sub[s].st = "on"
  /\ sub' = [sub EXCEPT ![s].st = "completed"]
  /\ delivered' = [delivered EXCEPT ![s] = Append(@, findByHref(Undefined))]
  /\ UNCHANGED <<nextRequestId, task, invocations, resolved, configured, gatewayRD,
                 responses, resolverEmits>>
  /\ UNCHANGED <<orchVars, vocabVars>>

NextTask ==
  \/ \E a \in PostArgs : postToEndpoint(a.linkPath, a.body, a.scopeId, a.options)
  \/ \E a \in DeleteArgs : deleteById(a.linkPath, a.scopeId, a.options)
  \/ \E a \in EndpointArgs : getEndpointById(a.scopeId, a.linkPath)
  \/ \E s \in Subs : SubscribeTask(s)
  \/ \E s \in Subs : \E href \in ResolverValues(resolvedLinkPath(task)) : ResolverEmits(s, href)
  \/ \E m \in SearchMethods : searchTask(m)
  \/ \E s \in Subs : \E href \in SearchHrefs(task.linkPath) : SearchHrefEmits(s, href)
  \/ \E s \in Subs : SearchHrefCompletes(s)
  \/ \E id \in DOMAIN gatewayRD : GatewayProgress(id)
  \/ \E id \in DOMAIN gatewayRD, c \in CompletedRDs : GatewayResponds(id, c)

------------------------------------------------------------------------------
(* Vocabulary service *)

\* an unset number (elementsPerPage, currentPage of new PageInfo(); no statusCode)
Unset == 0

DefaultPageInfo == [elementsPerPage |-> Unset, currentPage |-> Unset]

\* the argument lists the invocations are drawn from
EntriesArgs ==
  { [name |-> "srsc", pageInfo |-> [elementsPerPage |-> 20, currentPage |-> 1]] }
EntriesByValueArgs ==
  { [value |-> "foo", exact |-> TRUE, name |-> "srsc",
     pageInfo |-> [elementsPerPage |-> 10, currentPage |-> 2]] }
EntryByValueArgs == { [value |-> "foo", name |-> "srsc"] }
EntryByIDArgs == { [ID |-> "42", name |-> "srsc"] }

\* new VocabularyFindOptions(collection, query, exact, entryID, elementsPerPage, currentPage)
VocabularyFindOptions(query, exact, entryID, elementsPerPage, currentPage) ==
  [query |-> query, exact |-> exact, entryID |-> entryID,
   elementsPerPage |-> elementsPerPage, currentPage |-> currentPage]

\* the query string of the find options: the parameters that are set, in order
queryArgs(options) ==
  (IF options.query # Undefined THEN <<"filter=" \o options.query>> ELSE <<>>)
  \o (IF options.exact # Undefined THEN <<"exact=" \o options.exact>> ELSE <<>>)
  \o (IF options.entryID # Undefined THEN <<"entryID=" \o options.entryID>> ELSE <<>>)
  \o (IF options.currentPage # Unset
        THEN <<"page=" \o ToString(options.currentPage)>> ELSE <<>>)
  \o (IF options.elementsPerPage # Unset
        THEN <<"size=" \o ToString(options.elementsPerPage)>> ELSE <<>>)

RECURSIVE joinArgs(_)
joinArgs(args) ==
  IF args = <<>> THEN ""
  ELSE IF Len(args) = 1 THEN args[1]
  ELSE args[1] \o "&" \o joinArgs(Tail(args))

\* vocabularyDataService.buildHrefFromFindOptions(href, options)
buildHrefFromFindOptions(href, options) ==
  IF queryArgs(options) = <<>> THEN href ELSE href \o "?" \o joinArgs(queryArgs(options))

\* the Vocabulary objects findVocabularyById() can resolve to, by _links.entries.href
Vocabularies(name) ==
  { [name |-> name, entriesHref |-> "https://rest/api/submission/vocabularies/" \o name \o "/entries"] }
NoVocabulary == [name |-> Undefined, entriesHref |-> ""]

\* RemoteData<Vocabulary>
VocabularyRDs(name) ==
  [state : {"Success"}, payload : Vocabularies(name), statusCode : {200},
   errorMessage : {Undefined}]
  \cup [state : {"ResponsePending"}, payload : {NoVocabulary}, statusCode : {Unset},
        errorMessage : {Undefined}]
  \cup [state : {"Failure"}, payload : {NoVocabulary}, statusCode : {404},
        errorMessage : {"Not Found"}]

\* the items of a response: plain objects with the fields of an entry
Physics ==
  [type |-> "Object", display |-> "Physics", value |-> "physics", authority |-> "srsc:42"]
Mathematics ==
  [type |-> "Object", display |-> "Mathematics", value |-> "maths", authority |-> "srsc:7"]

\* the payload (an array, or none) of a GenericSuccessResponse
Pages ==
  { [defined |-> FALSE, items |-> <<>>],
    [defined |-> TRUE, items |-> <<>>],
    [defined |-> TRUE, items |-> <<Physics>>],
    [defined |-> TRUE, items |-> <<Mathematics, Physics>>] }

\* the states of a request entry: pending, or completed with a response
EntriesStates ==
  [state : {"RequestPending", "ResponsePending"}, payload : {[defined |-> FALSE, items |-> <<>>]},
   pageInfo : {DefaultPageInfo}, statusCode : {Unset}, errorMessage : {Undefined}]
  \cup [state : {"Success"}, payload : Pages,
        pageInfo : {[elementsPerPage |-> 20, currentPage |-> 1]}, statusCode : {200},
        errorMessage : {Undefined}]
  \cup [state : {"Failure"}, payload : {[defined |-> FALSE, items |-> <<>>]},
        pageInfo : {DefaultPageInfo}, statusCode : {500},
        errorMessage : {"Internal Server Error"}]

\* Object.assign with its arguments exchanged: the item as it came, not re-wrapped
asVocabularyEntryExchanged(entry) == entry

\* Object.assign(new VocabularyEntry(), entry)
asVocabularyEntry(entry) == [entry EXCEPT !.type = "VocabularyEntry"]

\* new PaginatedList(response.pageInfo, response.payload), its page re-wrapped
PaginatedList(pageInfo, payload) ==
  [pageInfo |-> pageInfo,
   page |-> IF payload.defined
              THEN [defined |-> TRUE,
                    items |-> [i \in 1..Len(payload.items) |-> asVocabularyEntry(payload.items[i])]]
              ELSE payload]

NoList == [pageInfo |-> DefaultPageInfo, page |-> [defined |-> FALSE, items |-> <<>>]]

\* toRDPaginatedVocabularyEntries: the RemoteData built for one state of the request entry
toRDPaginatedVocabularyEntries(entry) ==
  [kind |-> "rd", state |-> entry.state,
   payload |-> IF entry.state = "Success" THEN PaginatedList(entry.pageInfo, entry.payload)
               ELSE NoList,
   statusCode |-> entry.statusCode, errorMessage |-> entry.errorMessage]

NoEntry == [type |-> "null", display |-> Undefined, value |-> Undefined,
            authority |-> Undefined]

\* the map taking the last element of the list instead of list[0]
lastEntryOrNull(list) ==
  IF list.defined /\ Len(list.items) > 0 THEN list.items[Len(list.items)] ELSE NoEntry

\* map((list) => isNotEmpty(list) ? list[0] : null), on the page of the first succeeded list
firstEntryOrNull(list) ==
  IF list.defined /\ Len(list.items) > 0 THEN list.items[1] ELSE NoEntry

NoLookup == [call |-> "none", op |-> "none", value |-> Undefined, linkPath |-> Undefined,
             options |-> VocabularyFindOptions(Undefined, Undefined, Undefined,
                                                              Unset, Unset),
             name |-> Undefined]

\* gotVocabulary: getFirstSucceededRemoteDataPayload() has taken its value,
\* lastHref: the previous value seen by distinctUntilChanged(),
\* gotList: getFirstSucceededRemoteListPayload() has taken its value
IdleVocab == [st |-> "off", gotVocabulary |-> FALSE, lastHref |-> Undefined,
              requested |-> FALSE, gotList |-> FALSE]

InitVocab ==
  /\ lookup = NoLookup
  /\ lookups = 0
  /\ vocab = IdleVocab
  /\ vocabularyRDs = <<>>
  /\ entriesRequests = <<>>
  /\ entriesStates = <<>>
  /\ answered = <<>>
  /\ endpoints = <<>>
  /\ fetched = <<>>

\* what the vocabulary actions leave alone in the other components
OthersUnchanged ==
  UNCHANGED <<orchVars, task, invocations, sub, resolved, delivered, configured, gatewayRD,
              responses, resolverEmits>>

NewLookup(call, op, value, name, linkPath, options) ==
  /\ lookups < MaxLookups
  /\ lookups' = lookups + 1
  /\ lookup' = [call |-> call, op |-> op, value |-> value, linkPath |-> linkPath,
                options |-> options, name |-> name]
  /\ vocab' = IdleVocab
  /\ vocabularyRDs' = <<>>
  /\ entriesStates' = <<>>
  /\ answered' = <<>>
  /\ endpoints' = <<>>
  /\ fetched' = <<>>
  /\ UNCHANGED <<entriesRequests, nextRequestId>>
  /\ OthersUnchanged

\* getVocabularyEntries(vocabularyOptions, pageInfo)
getVocabularyEntries(vocabularyOptions, pageInfo) ==
  NewLookup("getVocabularyEntries", "entries", Undefined, vocabularyOptions.name, Undefined,
            VocabularyFindOptions(Undefined, Undefined, Undefined,
                                  pageInfo.elementsPerPage, pageInfo.currentPage))

\* getVocabularyEntriesByValue(value, exact, vocabularyOptions, pageInfo)
getVocabularyEntriesByValue(value, exact, vocabularyOptions, pageInfo) ==
  NewLookup("getVocabularyEntriesByValue", "entries", value, vocabularyOptions.name, Undefined,
            VocabularyFindOptions(value, IF exact THEN "true" ELSE "false", Undefined,
                                  pageInfo.elementsPerPage, pageInfo.currentPage))

\* getVocabularyEntryByValue(value, vocabularyOptions)
getVocabularyEntryByValue(value, vocabularyOptions) ==
  NewLookup("getVocabularyEntryByValue", "entry", value, vocabularyOptions.name, Undefined,
            VocabularyFindOptions(value, "true", Undefined,
                                  DefaultPageInfo.elementsPerPage, DefaultPageInfo.currentPage))

\* getVocabularyEntryByID(ID, vocabularyOptions)
getVocabularyEntryByID(ID, vocabularyOptions) ==
  NewLookup("getVocabularyEntryByID", "entry", ID, vocabularyOptions.name, Undefined,
            VocabularyFindOptions(Undefined, Undefined, ID,
                                  DefaultPageInfo.elementsPerPage, DefaultPageInfo.currentPage))

\* the arguments of the navigation of a hierarchical vocabulary
ParentArgs == { [value |-> "physics", name |-> "srsc"] }
ChildrenArgs ==
  { [value |-> "physics", name |-> "srsc",
     pageInfo |-> [elementsPerPage |-> 20, currentPage |-> 1]] }

\* `${name}:${value}/parent`
parentLinkPath(value, name) == name \o ":" \o value \o "/parent"

\* the link path of the children built as value:name
childrenLinkPathSwapped(value, name) == value \o ":" \o name \o "/children"

\* `${name}:${value}/children`
childrenLinkPath(value, name) == name \o ":" \o value \o "/children"

\* getEntryDetailParent(value, name)
getEntryDetailParent(value, name) ==
  NewLookup("getEntryDetailParent", "parent", value, name, parentLinkPath(value, name),
            VocabularyFindOptions(Undefined, Undefined, Undefined, Unset, Unset))

\* getEntryDetailChildren(value, name, pageInfo)
getEntryDetailChildren(value, name, pageInfo) ==
  NewLookup("getEntryDetailChildren", "children", value, name, childrenLinkPath(value, name),
            VocabularyFindOptions(Undefined, Undefined, Undefined,
                                  pageInfo.elementsPerPage, pageInfo.currentPage))

\* what vocabularyEntryDetailDataService.getBrowseEndpoint() can emit
BrowseEndpoints ==
  { "https://rest/api/submission/vocabularyEntryDetails",
    "https://mirror/api/submission/vocabularyEntryDetails" }

\* vocabularyEntryDetailDataService.getFindAllHref(options, linkPath), for one value of
\* the browse endpoint
getFindAllHref(endpoint, options, linkPath) ==
  buildHrefFromFindOptions(endpoint \o "/" \o linkPath, options)

\* the browse endpoint emits href:
\*   getEntryDetailParent:   map(`${href}/${linkPath}`), mergeMap(findByHref)
\*   getEntryDetailChildren: getFindAllHref(options, linkPath), mergeMap(findAllByHref)
BrowseEndpointEmits(href) ==
  /\ lookup.op \in {"parent", "children"}
  /\ vocab.st = "on"
  /\ Len(endpoints) < MaxVocabularyEmits
  /\ endpoints' = Append(endpoints, href)
  /\ fetched' = Append(fetched,
       IF lookup.op = "parent"
         THEN [call |-> "findByHref", href |-> href \o "/" \o lookup.linkPath,
               options |-> NoLookup.options]
         ELSE [call |-> "findAllByHref",
               href |-> getFindAllHref(href, lookup.options, lookup.linkPath),
               options |-> lookup.options])
  /\ UNCHANGED <<lookup, lookups, vocab, vocabularyRDs, entriesRequests, entriesStates,
                 answered, nextRequestId>>
  /\ OthersUnchanged

SubscribeLookup ==
  /\ lookup.op # "none"
  /\ vocab.st = "off"
  /\ vocab' = [vocab EXCEPT !.st = "on"]
  /\ UNCHANGED <<lookup, lookups, vocabularyRDs, entriesRequests, entriesStates, answered,
                 nextRequestId, endpoints, fetched>>
  /\ OthersUnchanged

\* the head without the two operators that stop repeated values: every succeeded
\* RemoteData of the vocabulary sends its href on
hrefHeadEverySuccess(v, response) ==
  LET href == buildHrefFromFindOptions(response.payload.entriesHref, lookup.options) IN
    [passes |-> response.state = "Success" /\ isNotEmpty(href),
     gotVocabulary |-> FALSE, lastHref |-> v.lastHref, href |-> href]

\* The head of the pipe, applied to one RemoteData of the vocabulary:
\*   getFirstSucceededRemoteDataPayload(), map(buildHrefFromFindOptions),
\*   isNotEmptyOperator(), distinctUntilChanged()
hrefHead(v, response) ==
  IF v.gotVocabulary \/ response.state # "Success"
    THEN [passes |-> FALSE, gotVocabulary |-> v.gotVocabulary, lastHref |-> v.lastHref,
          href |-> Undefined]
    ELSE LET href == buildHrefFromFindOptions(response.payload.entriesHref, lookup.options) IN
           [passes |-> isNotEmpty(href) /\ href # v.lastHref,
            gotVocabulary |-> TRUE,
            lastHref |-> IF isNotEmpty(href) THEN href ELSE v.lastHref,
            href |-> href]

\* findVocabularyById(name) emits a RemoteData: getFirstSucceededRemoteDataPayload(),
\* map(buildHrefFromFindOptions), isNotEmptyOperator(), distinctUntilChanged(),
\* getVocabularyEntriesFor (new VocabularyEntriesRequest, configureRequest)
VocabularyEmits(response) ==
  /\ lookup.op \in {"entries", "entry"}
  /\ vocab.st = "on"
  /\ Len(vocabularyRDs) < MaxVocabularyEmits
  /\ vocabularyRDs' = Append(vocabularyRDs, response)
  /\ LET head == hrefHead(vocab, response) IN
       /\ vocab' = [vocab EXCEPT !.gotVocabulary = head.gotVocabulary,
                                 !.lastHref = head.lastHref,
                                 !.requested = @ \/ head.passes]
       /\ IF head.passes
            THEN /\ entriesRequests' = Append(entriesRequests,
                      [uuid |-> nextRequestId, href |-> head.href, inv |-> lookups,
                       by |-> lookup])
                 /\ nextRequestId' = nextRequestId + 1
            ELSE UNCHANGED <<entriesRequests, nextRequestId>>
  /\ UNCHANGED <<lookup, lookups, entriesStates, answered, endpoints, fetched>>
  /\ OthersUnchanged

\* what the subscriber receives for one RemoteData of the entries list
answers(v, rdList) ==
  IF lookup.op = "entries" THEN <<rdList>>
  ELSE IF v.gotList \/ rdList.state # "Success" THEN <<>>
  ELSE <<firstEntryOrNull(rdList.payload.page)>>

\* the gateway exposes a new state of the entries request: toRDPaginatedVocabularyEntries,
\* and for the single-entry lookups getFirstSucceededRemoteListPayload() and the map
EntriesEmits(entry) ==
  /\ vocab.st = "on"
  /\ vocab.requested
  /\ Len(entriesStates) < MaxEntriesStates
  /\ entriesStates' = Append(entriesStates, entry)
  /\ LET rdList == toRDPaginatedVocabularyEntries(entry) IN
       /\ answered' = answered \o answers(vocab, rdList)
       /\ vocab' = [vocab EXCEPT !.gotList = @ \/ (lookup.op = "entry" /\ rdList.state = "Success")]
  /\ UNCHANGED <<lookup, lookups, vocabularyRDs, entriesRequests, nextRequestId, endpoints,
                 fetched>>
  /\ OthersUnchanged

NextVocab ==
  \/ \E a \in EntriesArgs : getVocabularyEntries([name |-> a.name], a.pageInfo)
  \/ \E a \in EntriesByValueArgs :
       getVocabularyEntriesByValue(a.value, a.exact, [name |-> a.name], a.pageInfo)
  \/ \E a \in EntryByValueArgs : getVocabularyEntryByValue(a.value, [name |-> a.name])
  \/ \E a \in EntryByIDArgs : getVocabularyEntryByID(a.ID, [name |-> a.name])
  \/ \E a \in ParentArgs : getEntryDetailParent(a.value, a.name)
  \/ \E a \in ChildrenArgs : getEntryDetailChildren(a.value, a.name, a.pageInfo)
  \/ \E href \in BrowseEndpoints : BrowseEndpointEmits(href)
  \/ SubscribeLookup
  \/ \E response \in VocabularyRDs(lookup.name) : VocabularyEmits(response)
  \/ \E entry \in EntriesStates : EntriesEmits(entry)

------------------------------------------------------------------------------
(* Specifications: one per component, the other components standing idle *)

Init == InitOrch /\ InitTask /\ InitVocab

SpecOrch == Init /\ [][NextOrch]_vars

SpecTask == Init /\ [][NextTask]_vars

SpecVocab == Init /\ [][NextVocab]_vars

------------------------------------------------------------------------------
(* Claims about the reloadable actions component *)

OthersIdle(r) == \A q \in Runs \ {r} : run[q].st = "idle"

\* the reload value carries no object / carries an object
yieldsNoObject(v) == v = Null \/ (isRemoteData(v) /\ v.state = "Success" /\ v.payload = Null)
yieldsObject(v) == v \in DSO \/ (isRemoteData(v) /\ v.state = "Success" /\ v.payload \in DSO)
objectOf(v) == IF isRemoteData(v) THEN v.payload ELSE v

\* C1: a completed run in which actionExecution emitted one outcome has shown
\* exactly one notification, a success notification iff the outcome succeeded.
C1_ExactlyOneNotification ==
  \A r \in Runs :
    Len(run[r].outcomes) = 1 =>
      /\ Len(notifications[r]) <= 1
      /\ run[r].st = "completed" =>
           /\ Len(notifications[r]) = 1
           /\ (notifications[r][1] = "success") <=> run[r].outcomes[1]

\* C3: every reload value without an object has triggered the generic reload()
\* and no processCompleted event; every reload value with an object has
\* produced a processCompleted event carrying it and no reload().
C3_NoObjectTriggersReload ==
  \A r \in Runs :
    LET none == SelectSeq(reloadYields[r], yieldsNoObject)
        objs == SelectSeq(reloadYields[r], yieldsObject)
    IN  /\ reloadCalls[r] = Len(none)
        /\ Len(processCompleted[r]) = Len(objs)
        /\ \A i \in 1..Len(objs) :
             /\ i <= Len(processCompleted[r])
             /\ processCompleted[r][i].reloadedObject.indexableObject = objectOf(objs[i])

\* C4: a run in which actionExecution emitted one outcome emits at most one
\* processCompleted event, however many values the reload stream emits.
C4_AtMostOneProcessCompleted ==
  \A r \in Runs :
    Len(run[r].outcomes) <= 1 => Len(processCompleted[r]) <= 1

\* C5: when the action succeeded and the reload ended with a RemoteData in
\* Failure state, the finished run has set processing to false and has made
\* the failure visible (a notification or a value delivered to the caller).
C5_FailedReloadSurfaces ==
  \A r \in Runs :
    ( /\ run[r].st = "completed"
      /\ run[r].outcomes = <<TRUE>>
      /\ isRemoteData(run[r].lastReload)
      /\ run[r].lastReload.state = "Failure"
      /\ OthersIdle(r) )
    => /\ processing = FALSE
       /\ notifications[r] # <<>> \/ emitted[r] # <<>>
\* the last outcome actionExecution() has emitted to run r has not succeeded
lastOutcomeFailed(rn) == rn.outcomes # <<>> /\ ~rn.outcomes[Len(rn.outcomes)]

\* C13: when an outcome that has not succeeded arrives, that step sets the processing
\* flag to false, emits one failure notification and null as the value of the returned
\* stream, emits no processCompleted event and does not call reload(); and
\* reloadObjectExecution is not subscribed for that outcome, so no reload value is
\* taken while the last outcome is a failed one.
C13_FailedOutcomeOnlyNotifies ==
  [][ \A r \in Runs :
        /\ run'[r].outcomes = Append(run[r].outcomes, FALSE) =>
             /\ processing' = FALSE
             /\ notifications'[r] = Append(notifications[r], "error")
             /\ emitted'[r] = Append(emitted[r], Null)
             /\ processCompleted'[r] = processCompleted[r]
             /\ reloadCalls'[r] = reloadCalls[r]
             /\ reloadYields'[r] = reloadYields[r]
             /\ run'[r].inner # "active"
        /\ reloadYields'[r] # reloadYields[r] => ~lastOutcomeFailed(run[r]) ]_vars

\* a succeeded outcome was overtaken by a failed one before its reload delivered anything
C13_Witness ==
  \E r \in Runs :
    /\ run[r].outcomes = <<TRUE, FALSE>>
    /\ notifications[r] = <<"error">>
    /\ emitted[r] = <<Null>>
    /\ processCompleted[r] = <<>>
    /\ reloadCalls[r] = 0
    /\ processing = FALSE

\* a run is in flight from its invocation until its stream has ended
inFlight(rn) == rn.st \in {"invoked", "subscribed"}

\* the first two parts of C18, which every step of the component satisfies
setsFlagAroundEffects ==
  \A r \in Runs :
    /\ run[r].st = "idle" /\ run'[r].st = "invoked" => processing' = TRUE
    /\ \/ notifications'[r] # notifications[r]
       \/ processCompleted'[r] # processCompleted[r]
       \/ reloadCalls'[r] # reloadCalls[r]
       => processing' = FALSE

\* C18: startActionExecution sets the processing flag to true when it is invoked; the
\* flag is false whenever a step emits a notification, a processCompleted event or the
\* generic reload(); and once a notification has been emitted for a run and no other
\* run is in flight, the flag is false.
C18_ProcessingFlagFollowsRuns ==
  [][ /\ setsFlagAroundEffects
      /\ \A r \in Runs :
           notifications'[r] # <<>> /\ (\A o \in Runs \ {r} : ~inFlight(run'[o]))
             => processing' = FALSE ]_vars

\* C21: once the caller has unsubscribed from the stream returned by
\* startActionExecution, the run stays unsubscribed and no step adds a notification, a
\* processCompleted event, a call of reload() or a value of the returned stream for it,
\* whether the unsubscribe came before the outcome or between the outcome and the
\* reload result.
C21_UnsubscribedRunIsSilent ==
  [][ \A r \in Runs :
        run[r].st = "unsubscribed" =>
          /\ run'[r].st = "unsubscribed"
          /\ notifications'[r] = notifications[r]
          /\ processCompleted'[r] = processCompleted[r]
          /\ reloadCalls'[r] = reloadCalls[r]
          /\ emitted'[r] = emitted[r]
          /\ reloadYields'[r] = reloadYields[r] ]_vars

\* a run was unsubscribed between its succeeded outcome and the reload result, and
\* another run has gone on to its notification since
C21_Witness ==
  \E r \in Runs : \E o \in Runs \ {r} :
    /\ run[r].st = "unsubscribed"
    /\ run[r].outcomes = <<TRUE>>
    /\ run[r].inner = "active"
    /\ notifications[r] = <<>>
    /\ processCompleted[r] = <<>>
    /\ notifications[o] = <<"success">>

\* run r has been invoked and has neither finished with a notification nor been cancelled
stillInFlight(r) ==
  /\ run[r].st \notin {"idle", "unsubscribed"}
  /\ notifications[r] = <<>>

\* C22: the processing flag is true whenever at least one run of startActionExecution
\* on the component is still in flight, however two overlapping runs interleave.
C22_FlagTrueWhileAnyRunInFlight ==
  (\E r \in Runs : stillInFlight(r)) => processing = TRUE


\* C24: when actionExecution emits a second outcome while the reload of a first,
\* succeeded outcome is pending, that reload is abandoned: a result it yields later
\* adds no notification and no processCompleted event and handles nothing, and every
\* notification that is added is the one of the latest outcome.
C24_AbandonedReloadIsSilent ==
  [][ \A r \in Runs :
        /\ (run[r].inner = "active" /\ run'[r].outcomes # run[r].outcomes)
             => run'[r].abandoned = run[r].abandoned + 1
        /\ run'[r].dropped # run[r].dropped
             => /\ run[r].abandoned > 0
                /\ notifications'[r] = notifications[r]
                /\ processCompleted'[r] = processCompleted[r]
                /\ reloadCalls'[r] = reloadCalls[r]
                /\ emitted'[r] = emitted[r]
                /\ processing' = processing
        /\ notifications'[r] # notifications[r]
             => LET latest == run'[r].outcomes[Len(run'[r].outcomes)] IN
                  notifications'[r] = Append(notifications[r],
                                             IF latest THEN "success" ELSE "error") ]_vars

\* a second outcome, a failed one, arrived while the reload of the first was pending;
\* the first reload has yielded an object since, and the only notification is the
\* error of the second outcome
C24_Witness ==
  \E r \in Runs :
    /\ run[r].outcomes = <<TRUE, FALSE>>
    /\ run[r].abandoned = 1
    /\ run[r].dropped > 0
    /\ yieldsObject(run[r].lastDropped)
    /\ notifications[r] = <<"error">>
    /\ processCompleted[r] = <<>>
------------------------------------------------------------------------------
(* Claims about the tasks service *)

\* the requests subscription s of the latest invocation handed to the gateway
configuredBy(s) ==
  SelectSeq(configured, LAMBDA c : c.by = s /\ c.inv = invocations)

\* C2: whenever a postToEndpoint or deleteById pipeline delivers outcomes, the
\* RemoteData of its request has just completed, and each outcome is
\* succeeded=false with the gateway's status code and error message when that
\* RemoteData has failed, succeeded=true with the gateway's status code and no
\* error message otherwise.
C2_OutcomeReducesFirstCompleted ==
  [][ \A s \in Subs :
        delivered'[s] # delivered[s] /\ task'.op \in {"post", "delete"} /\ task' = task =>
          LET response == gatewayRD'[task.requestId] IN
            /\ ~hasCompleted(gatewayRD[task.requestId])
            /\ hasCompleted(response)
            /\ Len(delivered'[s]) > Len(delivered[s])
            /\ \A i \in (Len(delivered[s]) + 1)..Len(delivered'[s]) :
                 delivered'[s][i].value =
                   IF response.state = "Failure"
                     THEN [hasSucceeded |-> FALSE, statusCode |-> response.statusCode,
                           errorMessage |-> response.errorMessage]
                     ELSE [hasSucceeded |-> TRUE, statusCode |-> response.statusCode,
                           errorMessage |-> Undefined] ]_vars

C2_Witness ==
  /\ task.op = "delete"
  /\ \E s \in Subs : \E i \in DOMAIN delivered[s] :
       /\ delivered[s][i].value.hasSucceeded = FALSE
       /\ delivered[s][i].value.errorMessage = "Not Found"
       /\ delivered[s][i].value.statusCode = 404

\* C7: no two requests handed to the gateway carry the same request identifier.
C7_RequestIdsAreUnique ==
  \A i, j \in DOMAIN configured :
    i # j => configured[i].request.uuid # configured[j].request.uuid

\* C8: in postToEndpoint, deleteById and getEndpointById, while the resolver has emitted only empty strings to a subscription, the
\* subscription has handed no request to the gateway and has delivered nothing;
\* once a non-empty URL has arrived, the first request (or the first URL
\* delivered by getEndpointById) is built from the first non-empty URL.
C8_EmptyEndpointStalls ==
  task.op \in {"post", "delete", "endpoint"} => \A s \in Subs :
    LET nonEmpty == SelectSeq(resolved[s], LAMBDA h : h # "")
        first == IF task.scopeId # "" THEN nonEmpty[1] \o "/" \o task.scopeId
                 ELSE nonEmpty[1]
    IN  IF nonEmpty = <<>>
          THEN delivered[s] = <<>> /\ configuredBy(s) = <<>>
          ELSE IF task.op = "endpoint"
            THEN delivered[s] # <<>> /\ delivered[s][1].url = first
            ELSE configuredBy(s) # <<>> /\ configuredBy(s)[1].request.href = first

C8_Witness ==
  \E s \in Subs :
    /\ Len(resolved[s]) = 2
    /\ resolved[s][1] = ""
    /\ resolved[s][2] # ""
    /\ task.op = "post"
    /\ Len(configuredBy(s)) = 1

\* C9: every POST request of the latest postToEndpoint invocation targets a
\* non-empty URL the resolver emitted for the link path, followed by '/' and
\* the scopeId when one is given and unchanged when none is given, and carries
\* the given body and options; an outcome delivered for a successful response
\* with status code c is succeeded=true with statusCode=c.
C9_PostTargetsScopedEndpoint ==
  task.op = "post" =>
    /\ \A s \in Subs : \A i \in DOMAIN configuredBy(s) :
         LET request == configuredBy(s)[i].request IN
           /\ request.method = "POST"
           /\ \E k \in DOMAIN resolved[s] :
                /\ resolved[s][k] # ""
                /\ resolved[s][k] \in ResolverValues(task.linkPath)
                /\ request.href = IF task.scopeId # NoScope
                                    THEN resolved[s][k] \o "/" \o task.scopeId
                                    ELSE resolved[s][k]
           /\ request.body = task.body
           /\ request.options = task.options
    /\ \A s \in Subs : \A i \in DOMAIN delivered[s] :
         delivered[s][i].of.state = "Success" =>
           /\ delivered[s][i].value.hasSucceeded = TRUE
           /\ delivered[s][i].value.statusCode = delivered[s][i].of.statusCode

C9_Witness ==
  /\ task.op = "post"
  /\ task.scopeId = "123"
  /\ \E s \in Subs :
       /\ \E i \in DOMAIN configuredBy(s) :
            configuredBy(s)[i].request.href = "https://rest/api/claimtask/123"
       /\ \E i \in DOMAIN delivered[s] :
            delivered[s][i].value = [hasSucceeded |-> TRUE, statusCode |-> 200,
                                     errorMessage |-> Undefined]

\* the hrefs a subscription of searchTask has fetched by
fetchedBy(s) == SelectSeq(delivered[s], LAMBDA d : d.kind = "findByHref")

\* C12: searchTask fetches by at most one href per subscription, the first non-empty
\* href of the search-href stream; findByHref is never called with an empty string or
\* with an absent href, whatever the stream emits first and also when it completes
\* without a non-empty href.
C12_SearchFetchesFirstNonEmptyHref ==
  task.op = "search" =>
    \A s \in Subs :
      LET nonEmpty == SelectSeq(resolved[s], LAMBDA h : h # Undefined /\ h # "") IN
        /\ Len(fetchedBy(s)) <= 1
        /\ \A i \in DOMAIN fetchedBy(s) :
             /\ fetchedBy(s)[i].href # ""
             /\ fetchedBy(s)[i].href # Undefined
             /\ nonEmpty # <<>>
             /\ fetchedBy(s)[i].href = nonEmpty[1]


\* the URLs subscription s of a getEndpointById or deleteById invocation has produced:
\* the values delivered by getEndpointById, the targets of the DELETE requests
producedUrls(s) ==
  IF task.op = "endpoint"
    THEN [i \in DOMAIN delivered[s] |-> delivered[s][i].url]
    ELSE [i \in DOMAIN configuredBy(s) |-> configuredBy(s)[i].request.href]

\* the non-empty URLs the resolver has emitted to s for the given link path, or for the
\* service's configured link path when none is given
resolvedBases(s) ==
  { resolved[s][k] : k \in DOMAIN resolved[s] } \ {""}

expectedLinkPath == IF task.linkPath # NoLinkPath THEN task.linkPath ELSE ServiceLinkPath

\* C14 as stated: every URL emitted by getEndpointById(scopeId, linkPath), and every
\* DELETE target of deleteById, is a non-empty resolved base URL followed by '/' and
\* the scopeId, for every scopeId; the base is resolved from linkPath when it is given
\* and from the service's configured link path when it is absent.
C14_EveryUrlCarriesScopeSuffix ==
  task.op \in {"endpoint", "delete"} =>
    \A s \in Subs : \A i \in DOMAIN producedUrls(s) :
      \E base \in resolvedBases(s) :
        /\ base \in ResolverValues(expectedLinkPath)
        /\ producedUrls(s)[i] = base \o "/" \o task.scopeId

\* C14 amended: every such URL is a non-empty resolved base URL, followed by '/' and
\* the scopeId when the scopeId is not empty and left as it is when the scopeId is
\* empty; the base is resolved from linkPath when it is given and from the service's
\* configured link path when it is absent.
C14_UrlIsScopedResolvedBase ==
  task.op \in {"endpoint", "delete"} =>
    \A s \in Subs : \A i \in DOMAIN producedUrls(s) :
      \E base \in resolvedBases(s) :
        /\ base \in ResolverValues(expectedLinkPath)
        /\ producedUrls(s)[i] = IF task.scopeId # "" THEN base \o "/" \o task.scopeId
                                ELSE base

\* a deleteById without link path has targeted the scoped URL of the service's own path
C14_Witness ==
  /\ task.op = "delete"
  /\ task.linkPath = NoLinkPath
  /\ \E s \in Subs :
       /\ Len(resolved[s]) = 2
       /\ resolved[s][1] = ""
       /\ producedUrls(s) = <<"https://mirror/api/claimedtasks/123">>

\* C16: in postToEndpoint and deleteById, no outcome is delivered by a step that leaves
\* the RemoteData of the request RequestPending or ResponsePending, nor by a change of a
\* RemoteData that had completed already; the outcomes a step delivers are built from
\* the state the RemoteData has just completed with, one for each request that was
\* waiting; and so every request handed to the gateway has either one outcome or is
\* still waiting for its first completed state.
C16_OneOutcomePerRequest ==
  [][ task'.op \in {"post", "delete"} /\ task' = task =>
        \A s \in Subs :
          LET before == gatewayRD[task.requestId]
              after == gatewayRD'[task.requestId]
              new == (Len(delivered[s]) + 1)..Len(delivered'[s])
          IN  /\ ~hasCompleted(after) => delivered'[s] = delivered[s]
              /\ hasCompleted(before) => delivered'[s] = delivered[s]
              /\ Len(delivered'[s]) >= Len(delivered[s])
              /\ \A i \in new : delivered'[s][i].of = after
              /\ Len(delivered'[s]) + sub'[s].pending
                   = Len(SelectSeq(configured', LAMBDA c : c.by = s /\ c.inv = invocations')) ]_vars

\* a request has its one outcome from the first completed state, and the gateway has
\* exposed another completed state since
C16_Witness ==
  /\ task.op = "post"
  /\ \E s \in Subs :
       /\ Len(configuredBy(s)) = 1
       /\ Len(delivered[s]) = 1
       /\ delivered[s][1].of.state = "Failure"
       /\ gatewayRD[task.requestId].state = "Success"

\* C17: within one postToEndpoint or deleteById invocation, a subscription has built no
\* more requests than the resolver has emitted non-empty URLs, and none before the
\* first one; it awaits no response (fetchRequest) of a request it has not handed to
\* the gateway; it has delivered no outcome before a request was handed to the gateway,
\* and no more outcomes than requests; and the gateway knows no request that was not
\* handed to it.
C17_StepsAreSequential ==
  task.op \in {"post", "delete"} =>
    /\ \A s \in Subs :
         LET nonEmpty == SelectSeq(resolved[s], LAMBDA h : h # "") IN
           /\ Len(configuredBy(s)) <= Len(nonEmpty)
           /\ \A i \in DOMAIN configuredBy(s) :
                \E k \in DOMAIN nonEmpty :
                  configuredBy(s)[i].request.href \in
                    {nonEmpty[k], nonEmpty[k] \o "/" \o task.scopeId}
           /\ sub[s].pending <= Len(configuredBy(s))
           /\ Len(delivered[s]) + sub[s].pending <= Len(configuredBy(s))
           /\ delivered[s] # <<>> => configuredBy(s) # <<>>
    /\ gatewayRD[task.requestId] # NoRD =>
         \E i \in DOMAIN configured : configured[i].request.uuid = task.requestId

\* the whole sequence has run once: an empty URL, then a non-empty one, a request handed
\* to the gateway, and its outcome delivered
C17_Witness ==
  /\ task.op = "delete"
  /\ \E s \in Subs :
       /\ resolved[s] = <<"", "https://rest/api/claimtask">>
       /\ Len(configuredBy(s)) = 1
       /\ Len(delivered[s]) = 1
       /\ sub[s].pending = 0

\* the number of runs of consecutive equal values in a sequence
countRuns(seq) == Cardinality({ i \in DOMAIN seq : i = 1 \/ seq[i] # seq[i - 1] })

\* C23: in a subscribed postToEndpoint invocation, the POST requests handed to the
\* gateway are as many as the runs of consecutive equal values among the non-empty URLs
\* the resolver has emitted: a URL repeated in a row adds no POST, and one non-empty URL,
\* emitted any number of times in a row, gives exactly one POST.
C23_OnePostPerRunOfUrls ==
  task.op = "post" =>
    \A s \in Subs :
      LET nonEmpty == SelectSeq(resolved[s], LAMBDA h : h # "") IN
        /\ Len(configuredBy(s)) = countRuns(nonEmpty)
        /\ \A i \in DOMAIN configuredBy(s) : configuredBy(s)[i].request.method = "POST"

\* the resolver has emitted the same non-empty URL twice in a row, and one POST was made
C23_Witness ==
  /\ task.op = "post"
  /\ \E s \in Subs :
       /\ Len(resolved[s]) = 2
       /\ resolved[s][1] # ""
       /\ resolved[s][2] = resolved[s][1]
       /\ Len(configuredBy(s)) = 1

------------------------------------------------------------------------------
(* Claims about the vocabulary service *)

\* the positions of the states of the entries request that are succeeded lists
succeededLists == { i \in DOMAIN entriesStates : entriesStates[i].state = "Success" }

firstSucceededList == entriesStates[CHOOSE i \in succeededLists : \A j \in succeededLists : i <= j]

\* the vocabulary lookups that ended in Failure before the pipeline had its vocabulary
failedLookups ==
  { i \in DOMAIN vocabularyRDs :
      /\ vocabularyRDs[i].state = "Failure"
      /\ \A j \in 1..(i - 1) : vocabularyRDs[j].state # "Success" }

carries(answer, failure) ==
  /\ answer.kind = "rd"
  /\ answer.state = "Failure"
  /\ answer.statusCode = failure.statusCode
  /\ answer.errorMessage = failure.errorMessage

\* C6: for getVocabularyEntries and getVocabularyEntriesByValue, every gateway round trip
\* that ends in Failure (the lookup of the vocabulary by name, or the entries list
\* request) shows in the returned stream as a RemoteData in Failure state carrying that
\* failure.
C6_FailuresReachCaller ==
  lookup.op = "entries" =>
    /\ \A i \in failedLookups :
         \E k \in DOMAIN answered : carries(answered[k], vocabularyRDs[i])
    /\ \A i \in DOMAIN entriesStates :
         entriesStates[i].state = "Failure" =>
           \E k \in DOMAIN answered : carries(answered[k], entriesStates[i])

\* C10: getVocabularyEntryByValue and getVocabularyEntryByID answer nothing while no
\* entries list has arrived in Success state (pending and failed lists answer nothing),
\* and from the first succeeded list on they have answered exactly one value: the first
\* element of that list when it is non-empty, null when it is empty; later succeeded
\* lists add nothing.
C10_OneEntryFromFirstSucceededList ==
  lookup.op = "entry" =>
    IF succeededLists = {} THEN answered = <<>>
    ELSE LET list == firstSucceededList.payload IN
           answered = << IF list.defined /\ Len(list.items) > 0
                           THEN asVocabularyEntry(list.items[1]) ELSE NoEntry >>

\* a single-entry lookup has answered the first element of the first succeeded list, and
\* a later succeeded list with another first element has arrived since
C10_Witness ==
  /\ lookup.op = "entry"
  /\ Len(entriesStates) >= 2
  /\ entriesStates[1].state = "Success"
  /\ entriesStates[2].state = "Success"
  /\ Len(entriesStates[1].payload.items) > 0
  /\ Len(entriesStates[2].payload.items) > 0
  /\ entriesStates[1].payload.items[1] # entriesStates[2].payload.items[1]
  /\ answered = <<asVocabularyEntry(entriesStates[1].payload.items[1])>>

\* C11: two invocations of getVocabularyEntriesByValue with the same value, exact flag,
\* vocabulary options and page info, against a vocabulary whose entries link is
\* unchanged, hand at most one entries request to the gateway: the second invocation
\* configures no request for the href the first one has requested.
C11_SecondCallIssuesNoRequest ==
  \A i, j \in DOMAIN entriesRequests :
    /\ entriesRequests[i].by.call = "getVocabularyEntriesByValue"
    /\ entriesRequests[j].by = entriesRequests[i].by
    /\ entriesRequests[j].href = entriesRequests[i].href
    => i = j

\* C15: getEntryDetailParent(value, name) fetches, for every href of the browse endpoint,
\* the href '<browse endpoint>/<name>:<value>/parent'; getEntryDetailChildren(value,
\* name, pageInfo) requests '<browse endpoint>/<name>:<value>/children' with the page
\* number and the page size of the given pageInfo and with no value, exact or id filter.
C15_NavigationTargets ==
  /\ lookup.op = "parent" =>
       /\ Len(fetched) = Len(endpoints)
       /\ \A i \in DOMAIN fetched :
            /\ fetched[i].call = "findByHref"
            /\ fetched[i].href =
                 endpoints[i] \o "/" \o lookup.name \o ":" \o lookup.value \o "/parent"
  /\ lookup.op = "children" =>
       /\ Len(fetched) = Len(endpoints)
       /\ \A i \in DOMAIN fetched :
            \E a \in ChildrenArgs :
              /\ a.value = lookup.value
              /\ a.name = lookup.name
              /\ fetched[i].call = "findAllByHref"
              /\ fetched[i].href =
                   endpoints[i] \o "/" \o a.name \o ":" \o a.value \o "/children"
                     \o "?page=" \o ToString(a.pageInfo.currentPage)
                     \o "&size=" \o ToString(a.pageInfo.elementsPerPage)
              /\ fetched[i].options.query = Undefined
              /\ fetched[i].options.exact = Undefined
              /\ fetched[i].options.entryID = Undefined
              /\ fetched[i].options.currentPage = a.pageInfo.currentPage
              /\ fetched[i].options.elementsPerPage = a.pageInfo.elementsPerPage

\* the children of srsc:physics have been requested, page 1 of size 20
C15_Witness ==
  /\ lookup.op = "children"
  /\ fetched # <<>>
  /\ fetched[1].href =
       "https://rest/api/submission/vocabularyEntryDetails/srsc:physics/children?page=1&size=20"

\* C19: within one invocation, at most one entries request is handed to the gateway for
\* an href, however many pending and succeeded RemoteData the lookup of the vocabulary
\* emits.
C19_OneRequestPerUnchangedHref ==
  \A i, j \in DOMAIN entriesRequests :
    /\ entriesRequests[i].inv = entriesRequests[j].inv
    /\ entriesRequests[i].href = entriesRequests[j].href
    => i = j

\* the vocabulary has succeeded twice with the same entries link, and the invocation
\* has handed one request to the gateway
C19_Witness ==
  /\ Len(vocabularyRDs) >= 2
  /\ vocabularyRDs[1].state = "Success"
  /\ vocabularyRDs[2] = vocabularyRDs[1]
  /\ Len(SelectSeq(entriesRequests, LAMBDA q : q.inv = lookups)) = 1

\* C20: for getVocabularyEntries and getVocabularyEntriesByValue, the list answered for a
\* successful response has that response's pageInfo and, when the response has a page,
\* as many items as the response's payload, in the same order, each one a
\* VocabularyEntry with the fields of the item it was made from; a response without a
\* page gives a list without a page; nothing of an earlier response is in it.
C20_ListMirrorsItsResponse ==
  lookup.op = "entries" =>
    /\ Len(answered) = Len(entriesStates)
    /\ \A k \in DOMAIN entriesStates :
         entriesStates[k].state = "Success" =>
           LET response == entriesStates[k]
               list == answered[k].payload
           IN  /\ answered[k].state = "Success"
               /\ list.pageInfo = response.pageInfo
               /\ list.page.defined = response.payload.defined
               /\ Len(list.page.items) = Len(response.payload.items)
               /\ \A i \in DOMAIN response.payload.items :
                    /\ list.page.items[i].type = "VocabularyEntry"
                    /\ list.page.items[i].display = response.payload.items[i].display
                    /\ list.page.items[i].value = response.payload.items[i].value
                    /\ list.page.items[i].authority = response.payload.items[i].authority

\* a response of two items was followed by a response of one item, and the second list
\* holds that one item only
C20_Witness ==
  /\ lookup.op = "entries"
  /\ Len(entriesStates) = 2
  /\ entriesStates[1].state = "Success"
  /\ Len(entriesStates[1].payload.items) = 2
  /\ entriesStates[2].state = "Success"
  /\ Len(entriesStates[2].payload.items) = 1
  /\ entriesStates[2].payload.items[1] = entriesStates[1].payload.items[2]
  /\ Len(answered[2].payload.page.items) = 1
  /\ answered[2].payload.page.items[1].type = "VocabularyEntry"


====
